---- MODULE Spec2Model ----
(***************************************************************************)
(* A model of sdsorter.py: the streaming enumerator, process_one, the      *)
(* result aggregator handle_result and the two dispatch loops of main      *)
(* (synchronous for workers <= 1, windowed ThreadPoolExecutor otherwise).  *)
(***************************************************************************)
EXTENDS Integers, Sequences, FiniteSets, TLC

\* ------------------------------------------------------------------ bounds
\* Largest number of files the enumerator yields in a run.
MaxFiles == 4
\* Window capacity. The source sets BATCH = 2000 (line 214); the model runs
\* the same loop with a small capacity so that several windows happen.
BATCH == 2
\* Largest --workers value tried (1 is the synchronous loop).
MaxWorkers == 2
\* Number of distinct YYYY/MM/DD bucket folders the catalogue of files maps to.
NumBuckets == 2

\* ------------------------------------------------------------ exit statuses
ExitOK == 0
ExitErrors == 1
ExitAbort == 1
ExitNoSource == 2
\* exitcode before the process has exited
NoExit == -1

\* ----------------------------------------------------------------- values
\* Python's None, for Optional[str] / Optional[Path]
None == "<None>"
\* Optional[Path] dest: a bucket number, or NoDest for None
NoDest == 0

Files == 1 .. MaxFiles
Buckets == 1 .. NumBuckets

\* The catalogue of input files: file f resolves (when its date resolves) to
\* bucket BucketOf(f); files of one bucket share their base name, so that
\* dest = out_dir / p.name is the same path for them.
BucketOf(f) == ((f - 1) % NumBuckets) + 1

VARIABLES
    cfg,          \* args: workers, skip_errors, dry_run, move, readonly,
                  \* logfile (given or not), src_ok (src exists and is a directory)
    nfiles,       \* number of files iter_files will yield
    next,         \* number of files already yielded by files_iter
    pc,           \* position of the main thread
    batch,        \* main: batch (multi-worker)
    futs,         \* main: futs, the futures of the current window
    cur,          \* main: f of the synchronous loop (0: none)
    curRes,       \* main: res of the synchronous loop
    errors,       \* main: errors
    exitcode,     \* status the process exits with
    fs,           \* the filesystem: root, dirs, dest, src, ro, log
    \* history (not program state)
    fs0,          \* the filesystem as the run found it
    exitAt,       \* which statement ended the run
    procCount,    \* per file: calls of process_one
    handledCount, \* per file: calls of handle_result
    failed,       \* files for which process_one's except clause ran
    tallied,      \* files for which handle_result took its error branch
    window,       \* number of the window being filled / submitted / drained
    pullWin,      \* per file: window it was pulled into (0: not pulled)
    subWin,       \* per file: window it was submitted in (0: not submitted)
    abortPending, \* futures queued / running when SystemExit was raised
    roLog,        \* files ensure_readonly was called for, and those it failed for
    \* date resolution on its own (specification DateSpec)
    dnames,       \* two file names
    dpc,          \* "input" or "resolved"
    dres          \* what choose_date did for each of the two names

progVars == <<cfg, nfiles, next, pc, batch, futs, cur, curRes, errors, exitcode, fs>>
histVars == <<exitAt, procCount, handledCount, failed, tallied, window, pullWin,
              subWin, abortPending, roLog>>
dateVars == <<dnames, dpc, dres>>
vars == <<progVars, histVars, fs0, dateVars>>

\* ------------------------------------------------------------- process_one
\* What the environment does to one call of process_one: which statement of
\* the try body raises (if any), str(e) of that exception, and whether chmod
\* in ensure_readonly fails.  choose_date's own ValueError always has text.
Envs ==
    { [fault |-> "none", desc |-> None, chmod_fails |-> FALSE],
      [fault |-> "none", desc |-> None, chmod_fails |-> TRUE],
      [fault |-> "date", desc |-> "msg", chmod_fails |-> FALSE],
      [fault |-> "mkdir", desc |-> "msg", chmod_fails |-> FALSE],
      [fault |-> "io", desc |-> "msg", chmod_fails |-> FALSE],
      [fault |-> "io", desc |-> "", chmod_fails |-> FALSE] }

Outcome(p, dest, err) == [src |-> p, dest |-> dest, err |-> err]
NoRes == Outcome(0, NoDest, None)

\* ensure_readonly without its try/except: a failing stat/chmod propagates
ensure_readonly_no_catch(fsys, dest, env) ==
    IF env.chmod_fails
    THEN [fs |-> fsys, raised |-> TRUE, logged |-> FALSE]
    ELSE [fs |-> [fsys EXCEPT !.ro = @ \cup {dest}], raised |-> FALSE, logged |-> FALSE]

\* ensure_readonly: strips the write bits; when stat/chmod raises, the
\* except clause logs a warning and the function returns normally
ensure_readonly(fsys, dest, env) ==
    IF env.chmod_fails
    THEN [fs |-> fsys, raised |-> FALSE, logged |-> TRUE]
    ELSE [fs |-> [fsys EXCEPT !.ro = @ \cup {dest}], raised |-> FALSE, logged |-> FALSE]

\* The try body of process_one: whether a statement raises, the filesystem
\* it leaves, the dest it computed, and what became of ensure_readonly
\* ("skipped": not called, "ok", "failed": its chmod failed).
TryBody(p, c, fsys, env) ==
    IF env.fault = "date"
    THEN [raised |-> TRUE, fs |-> fsys, dest |-> NoDest, ro |-> "skipped"]
    ELSE IF env.fault = "mkdir"
    THEN [raised |-> TRUE, fs |-> fsys, dest |-> NoDest, ro |-> "skipped"]
    ELSE
      LET dest == BucketOf(p)
          made == [fsys EXCEPT !.root = TRUE, !.dirs = @ \cup {dest}]
      IN  IF c.dry_run
          THEN [raised |-> FALSE, fs |-> made, dest |-> dest, ro |-> "skipped"]
          ELSE IF env.fault = "io"
          THEN [raised |-> TRUE, fs |-> made, dest |-> NoDest, ro |-> "skipped"]
          ELSE
            LET put == IF c.move
                       THEN [made EXCEPT !.dest[dest] = p, !.src = @ \ {p}]
                       ELSE [made EXCEPT !.dest[dest] = p]
            IN  IF c.readonly
                THEN LET er == ensure_readonly(put, dest, env)
                     IN  [raised |-> er.raised, fs |-> er.fs,
                          dest |-> IF er.raised THEN NoDest ELSE dest,
                          ro |-> IF env.chmod_fails THEN "failed" ELSE "ok"]
                ELSE [raised |-> FALSE, fs |-> put, dest |-> dest, ro |-> "skipped"]

\* process_one with choose_date called before the try: a date-resolution
\* failure propagates to the caller instead of becoming an Outcome
process_one_date_outside_try(p, c, fsys, env) ==
    LET b == TryBody(p, c, fsys, env)
    IN  IF b.raised
        THEN [out |-> Outcome(p, NoDest, env.desc), fs |-> b.fs, ro |-> b.ro,
              caught |-> env.fault # "date", escaped |-> env.fault = "date"]
        ELSE [out |-> Outcome(p, b.dest, None), fs |-> b.fs, ro |-> b.ro,
              caught |-> FALSE, escaped |-> FALSE]

\* process_one: try body, and except Exception as e: return p, None, str(e)
process_one(p, c, fsys, env) ==
    LET b == TryBody(p, c, fsys, env)
    IN  IF b.raised
        THEN [out |-> Outcome(p, NoDest, env.desc), fs |-> b.fs, ro |-> b.ro,
              caught |-> TRUE, escaped |-> FALSE]
        ELSE [out |-> Outcome(p, b.dest, None), fs |-> b.fs, ro |-> b.ro,
              caught |-> FALSE, escaped |-> FALSE]

\* ----------------------------------------------------------- handle_result
\* Python truth value of err (Optional[str]): None and "" are false
Truthy(err) == err # None /\ err # ""

\* handle_result that logs the error and never raises SystemExit
handle_result_no_raise(res, errs, c) ==
    IF Truthy(res.err)
    THEN [errors |-> errs + 1, tallied |-> TRUE, raised |-> FALSE]
    ELSE [errors |-> errs, tallied |-> FALSE, raised |-> FALSE]

\* handle_result that raises SystemExit only from the second error on
handle_result_raise_on_second(res, errs, c) ==
    IF Truthy(res.err)
    THEN [errors |-> errs + 1, tallied |-> TRUE, raised |-> ~c.skip_errors /\ errs >= 1]
    ELSE [errors |-> errs, tallied |-> FALSE, raised |-> FALSE]

\* handle_result(res): the new errors, and whether SystemExit(1) is raised
handle_result(res, errs, c) ==
    IF Truthy(res.err)
    THEN [errors |-> errs + 1, tallied |-> TRUE, raised |-> ~c.skip_errors]
    ELSE [errors |-> errs, tallied |-> FALSE, raised |-> FALSE]

\* ---------------------------------------------------------------- helpers
\* len(batch) > BATCH: an off-by-one window test
BatchFullOffByOne(b) == Len(b) > BATCH

\* len(batch) >= BATCH
BatchFull(b) == Len(b) >= BATCH

\* the window kept after its drain (batch.clear() forgotten)
BatchNotCleared(b) == b

\* batch.clear()
BatchClear(b) == <<>>

\* a drain loop that stops after the first completed future
FirstYielded(fu) == \E i \in 1 .. Len(fu) : fu[i].yielded

\* for fut in cf.as_completed(futs) ends when every future has been yielded
AllYielded(fu) == \A i \in 1 .. Len(fu) : fu[i].yielded

\* shutdown(wait=False): returns at once (not what the with block does)
ShutdownNoWait(fu) == TRUE

\* ThreadPoolExecutor.__exit__: shutdown(wait=True) returns once every
\* submitted work item has run
ShutdownWait(fu) == \A i \in 1 .. Len(fu) : fu[i].st = "done"

\* a final status that ignores the error tally
FinalStatusAlwaysOK(errs) == ExitOK

\* return 1 if errors else 0
FinalStatus(errs) == IF errs # 0 THEN ExitErrors ELSE ExitOK

Future(p) == [f |-> p, st |-> "queued", res |-> NoRes, exc |-> FALSE, yielded |-> FALSE]

\* a pool whose threads never take a work item from the queue
QueuedNone(fu) == {}

Running(fu) == {i \in 1 .. Len(fu) : fu[i].st = "running"}
Queued(fu) == {i \in 1 .. Len(fu) : fu[i].st = "queued"}
Min(S) == CHOOSE x \in S : \A y \in S : x <= y

Bump(fn, p) == [fn EXCEPT ![p] = @ + 1]

\* history of ensure_readonly calls
LogReadonly(log, p, ro) ==
    [tried |-> IF ro # "skipped" THEN log.tried \cup {p} ELSE log.tried,
     failed |-> IF ro = "failed" THEN log.failed \cup {p} ELSE log.failed]

\* ------------------------------------------------------------------- Init
\* The filesystem before the run: the files to enumerate under src, a
\* destination root that may or may not exist yet, and nothing below it.
InitFs(n, root) ==
    [root |-> root, dirs |-> {}, dest |-> [b \in Buckets |-> 0],
     src |-> 1 .. n, ro |-> {}, log |-> FALSE]

\* DateSpec is not running
DateIdle == dnames = <<>> /\ dpc = "idle" /\ dres = <<>>

Configs ==
    [workers : 1 .. MaxWorkers, skip_errors : BOOLEAN, dry_run : BOOLEAN,
     move : BOOLEAN, readonly : BOOLEAN, logfile : BOOLEAN, src_ok : BOOLEAN]

Init ==
    /\ cfg \in Configs
    /\ nfiles \in 0 .. MaxFiles
    /\ (~cfg.src_ok => nfiles = 0)
    /\ next = 0
    /\ pc = "start"
    /\ batch = <<>>
    /\ futs = <<>>
    /\ cur = 0
    /\ curRes = NoRes
    /\ errors = 0
    /\ exitcode = NoExit
    /\ \E root \in BOOLEAN : fs = InitFs(nfiles, root)
    /\ fs0 = fs
    /\ exitAt = "running"
    /\ procCount = [f \in Files |-> 0]
    /\ handledCount = [f \in Files |-> 0]
    /\ failed = {}
    /\ tallied = {}
    /\ window = 1
    /\ pullWin = [f \in Files |-> 0]
    /\ subWin = [f \in Files |-> 0]
    /\ abortPending = [queued |-> {}, running |-> {}]
    /\ roLog = [tried |-> {}, failed |-> {}]
    /\ DateIdle

\* ------------------------------------------------------------------- main
\* setup_logging: with --logfile, logfile.parent.mkdir(parents=True) and
\* FileHandler(logfile) create the log file (and the folders above it)
setup_logging(fsys, c) ==
    IF c.logfile THEN [fsys EXCEPT !.log = TRUE] ELSE fsys

\* main creating the destination root before it tests the source
MainPrologueMkdirFirst(fsys, c) ==
    LET made == [setup_logging(fsys, c) EXCEPT !.root = TRUE]
    IN  [ret2 |-> ~c.src_ok, fs |-> made]

\* lines 175-182 of main: setup_logging, the source test (return 2), and
\* args.dst.mkdir(parents=True, exist_ok=True)
MainPrologue(fsys, c) ==
    LET logged == setup_logging(fsys, c)
    IN  IF ~c.src_ok
        THEN [ret2 |-> TRUE, fs |-> logged]
        ELSE [ret2 |-> FALSE, fs |-> [logged EXCEPT !.root = TRUE]]

\* lines 175-182, 203-205: logging, the precondition, dst.mkdir, the mode
CheckSource ==
    /\ pc = "start"
    /\ LET m == MainPrologue(fs, cfg)
       IN  /\ fs' = m.fs
           /\ IF m.ret2
              THEN /\ pc' = "exited"
                   /\ exitcode' = ExitNoSource
                   /\ exitAt' = "return2"
              ELSE /\ pc' = IF cfg.workers <= 1 THEN "single" ELSE "fill"
                   /\ UNCHANGED <<exitcode, exitAt>>
    /\ UNCHANGED <<dateVars, roLog, fs0, cfg, nfiles, next, batch, futs, cur, curRes, errors>>
    /\ UNCHANGED <<procCount, handledCount, failed, tallied, window, pullWin,
                   subWin, abortPending>>

\* line 206: for f in files_iter (synchronous loop)
SinglePull ==
    /\ pc = "single"
    /\ IF next < nfiles
       THEN /\ next' = next + 1
            /\ cur' = next + 1
            /\ pullWin' = [pullWin EXCEPT ![next + 1] = window]
            /\ pc' = "single_proc"
       ELSE /\ pc' = "finish"
            /\ UNCHANGED <<next, cur, pullWin>>
    /\ UNCHANGED <<dateVars, roLog, fs0, cfg, nfiles, batch, futs, curRes, errors, exitcode, fs>>
    /\ UNCHANGED <<exitAt, procCount, handledCount, failed, tallied, window,
                   subWin, abortPending>>

\* lines 207-211: res = process_one(f, ...)
SingleProcess ==
    /\ pc = "single_proc"
    /\ \E env \in Envs :
         LET r == process_one(cur, cfg, fs, env)
         IN  /\ fs' = r.fs
             /\ curRes' = r.out
             /\ failed' = IF r.caught THEN failed \cup {cur} ELSE failed
             /\ roLog' = LogReadonly(roLog, cur, r.ro)
             /\ pc' = IF r.escaped THEN "crashed" ELSE "single_handle"
    /\ procCount' = Bump(procCount, cur)
    /\ UNCHANGED <<dateVars, fs0, cfg, nfiles, next, batch, futs, cur, errors, exitcode>>
    /\ UNCHANGED <<exitAt, handledCount, tallied, window, pullWin, subWin,
                   abortPending>>

\* line 212: handle_result(res)
SingleHandle ==
    /\ pc = "single_handle"
    /\ LET h == handle_result(curRes, errors, cfg)
       IN  /\ errors' = h.errors
           /\ tallied' = IF h.tallied THEN tallied \cup {cur} ELSE tallied
           /\ pc' = IF h.raised THEN "aborting" ELSE "single"
    /\ handledCount' = Bump(handledCount, cur)
    /\ UNCHANGED <<dateVars, roLog, fs0, cfg, nfiles, next, batch, futs, cur, curRes, exitcode, fs>>
    /\ UNCHANGED <<exitAt, procCount, failed, window, pullWin, subWin,
                   abortPending>>

\* lines 217-219, 228: for f in files_iter: batch.append(f); the window is
\* submitted when full, or when the iterator is exhausted and batch is not empty
MultiPull ==
    /\ pc = "fill"
    /\ IF next < nfiles
       THEN /\ next' = next + 1
            /\ batch' = Append(batch, next + 1)
            /\ pullWin' = [pullWin EXCEPT ![next + 1] = window]
            /\ IF BatchFull(batch')
               THEN pc' = "submit" /\ futs' = <<>>
               ELSE pc' = "fill" /\ futs' = futs
       ELSE /\ IF batch # <<>>
               THEN pc' = "submit_last" /\ futs' = <<>>
               ELSE pc' = "shutdown" /\ futs' = futs
            /\ UNCHANGED <<next, batch, pullWin>>
    /\ UNCHANGED <<dateVars, roLog, fs0, cfg, nfiles, cur, curRes, errors, exitcode, fs>>
    /\ UNCHANGED <<exitAt, procCount, handledCount, failed, tallied, window,
                   subWin, abortPending>>

\* lines 220-224, 229-233: futs = [ex.submit(process_one, x, ...) for x in batch]
Submit ==
    /\ pc \in {"submit", "submit_last"}
    /\ Len(futs) < Len(batch)
    /\ LET p == batch[Len(futs) + 1]
       IN  /\ futs' = Append(futs, Future(p))
           /\ subWin' = [subWin EXCEPT ![p] = window]
    /\ pc' = IF Len(futs') < Len(batch) THEN pc
             ELSE IF pc = "submit" THEN "drain" ELSE "drain_last"
    /\ UNCHANGED <<dateVars, roLog, fs0, cfg, nfiles, next, batch, cur, curRes, errors, exitcode, fs>>
    /\ UNCHANGED <<exitAt, procCount, handledCount, failed, tallied, window,
                   pullWin, abortPending>>

\* lines 225-226, 234-235: for fut in cf.as_completed(futs):
\*                             handle_result(fut.result())
Drain(i) ==
    /\ pc \in {"drain", "drain_last"}
    /\ i \in 1 .. Len(futs)
    /\ futs[i].st = "done"
    /\ ~futs[i].yielded
    /\ IF futs[i].exc
       THEN /\ pc' = "crashed"
            /\ UNCHANGED <<errors, tallied, abortPending, handledCount>>
       ELSE LET h == handle_result(futs[i].res, errors, cfg)
            IN  /\ errors' = h.errors
                /\ tallied' = IF h.tallied THEN tallied \cup {futs[i].f} ELSE tallied
                /\ pc' = IF h.raised THEN "aborting" ELSE pc
                /\ abortPending' = IF h.raised
                                   THEN [queued |-> Queued(futs),
                                         running |-> Running(futs)]
                                   ELSE abortPending
                /\ handledCount' = Bump(handledCount, futs[i].f)
    /\ futs' = [futs EXCEPT ![i].yielded = TRUE]
    /\ UNCHANGED <<dateVars, roLog, fs0, cfg, nfiles, next, batch, cur, curRes, exitcode, fs>>
    /\ UNCHANGED <<exitAt, procCount, failed, window, pullWin, subWin>>

\* as_completed is exhausted: line 227 batch.clear() and back to the for
\* loop, or (after the last window) leave the with block
DrainDone ==
    /\ pc \in {"drain", "drain_last"}
    /\ AllYielded(futs)
    /\ IF pc = "drain"
       THEN /\ batch' = BatchClear(batch)
            /\ window' = window + 1
            /\ pc' = "fill"
       ELSE /\ pc' = "shutdown"
            /\ UNCHANGED <<batch, window>>
    /\ UNCHANGED <<dateVars, roLog, fs0, cfg, nfiles, next, futs, cur, curRes, errors, exitcode, fs>>
    /\ UNCHANGED <<exitAt, procCount, handledCount, failed, tallied, pullWin,
                   subWin, abortPending>>

\* line 215: the with block is left normally; __exit__ is shutdown(wait=True)
Shutdown ==
    /\ pc = "shutdown"
    /\ ShutdownWait(futs)
    /\ pc' = "finish"
    /\ UNCHANGED <<dateVars, roLog, fs0, cfg, nfiles, next, batch, futs, cur, curRes, errors, exitcode, fs>>
    /\ UNCHANGED histVars

\* lines 237-245: return 1 if errors else 0
Finish ==
    /\ pc = "finish"
    /\ pc' = "exited"
    /\ exitcode' = FinalStatus(errors)
    /\ exitAt' = "return"
    /\ UNCHANGED <<dateVars, roLog, fs0, cfg, nfiles, next, batch, futs, cur, curRes, errors, fs>>
    /\ UNCHANGED <<procCount, handledCount, failed, tallied, window, pullWin,
                   subWin, abortPending>>

\* line 199: SystemExit(1) unwinds main; in the multi-worker branch it first
\* unwinds the with block of line 215, whose __exit__ is shutdown(wait=True)
AbortExit ==
    /\ pc = "aborting"
    /\ cfg.workers <= 1 \/ ShutdownWait(futs)
    /\ pc' = "exited"
    /\ exitcode' = ExitAbort
    /\ exitAt' = "SystemExit"
    /\ UNCHANGED <<dateVars, roLog, fs0, cfg, nfiles, next, batch, futs, cur, curRes, errors, fs>>
    /\ UNCHANGED <<procCount, handledCount, failed, tallied, window, pullWin,
                   subWin, abortPending>>

\* ---------------------------------------------------------------- workers
\* A pool thread takes the oldest work item of the queue
WorkerStart ==
    /\ Queued(futs) # {}
    /\ Cardinality(Running(futs)) < cfg.workers
    /\ futs' = [futs EXCEPT ![Min(Queued(futs))].st = "running"]
    /\ UNCHANGED <<dateVars, roLog, fs0, cfg, nfiles, next, pc, batch, cur, curRes, errors, exitcode, fs>>
    /\ UNCHANGED histVars

\* The work item runs process_one and sets the future's result (or exception)
WorkerFinish(i) ==
    /\ i \in Running(futs)
    /\ \E env \in Envs :
         LET r == process_one(futs[i].f, cfg, fs, env)
         IN  /\ fs' = r.fs
             /\ futs' = [futs EXCEPT ![i].st = "done", ![i].res = r.out,
                                     ![i].exc = r.escaped]
             /\ failed' = IF r.caught THEN failed \cup {futs[i].f} ELSE failed
             /\ roLog' = LogReadonly(roLog, futs[i].f, r.ro)
    /\ procCount' = Bump(procCount, futs[i].f)
    /\ UNCHANGED <<dateVars, fs0, cfg, nfiles, next, pc, batch, cur, curRes, errors, exitcode>>
    /\ UNCHANGED <<exitAt, handledCount, tallied, window, pullWin, subWin,
                   abortPending>>

Next ==
    \/ CheckSource
    \/ SinglePull
    \/ SingleProcess
    \/ SingleHandle
    \/ MultiPull
    \/ Submit
    \/ \E i \in 1 .. MaxFiles : Drain(i)
    \/ DrainDone
    \/ Shutdown
    \/ Finish
    \/ AbortExit
    \/ WorkerStart
    \/ \E i \in 1 .. MaxFiles : WorkerFinish(i)

Spec == Init /\ [][Next]_vars

\* The steps of the main thread and of the pool threads
MainStep ==
    \/ CheckSource \/ SinglePull \/ SingleProcess \/ SingleHandle
    \/ MultiPull \/ Submit \/ (\E i \in 1 .. MaxFiles : Drain(i)) \/ DrainDone
    \/ Shutdown \/ Finish \/ AbortExit
WorkerStep == WorkerStart \/ \E i \in 1 .. MaxFiles : WorkerFinish(i)

\* Fair scheduling: the main thread and the pool threads each keep running
\* while they can take a step, and every call of process_one returns
FairSpec == Spec /\ WF_vars(MainStep) /\ WF_vars(WorkerStep)

\* ===================================================== date resolution
\* date_from_filename and choose_date on their own (specification DateSpec):
\* file names are sequences of one-character strings.
Digits == <<"0", "1", "2", "3", "4", "5", "6", "7", "8", "9">>
IsDigit(ch) == \E k \in 1 .. 10 : Digits[k] = ch
DigitVal(ch) == (CHOOSE k \in 1 .. 10 : Digits[k] = ch) - 1

\* 10 ** e
RECURSIVE Pow10(_)
Pow10(e) == IF e = 0 THEN 1 ELSE 10 * Pow10(e - 1)

\* the decimal digits of n, zero-padded to width w (how the recorder writes
\* the fields of a file name)
Fmt(n, w) == [k \in 1 .. w |-> Digits[((n \div Pow10(w - k)) % 10) + 1]]

\* int(s) for a string of decimal digits
RECURSIVE int(_)
int(str) ==
    IF str = <<>> THEN 0
    ELSE 10 * int(SubSeq(str, 1, Len(str) - 1)) + DigitVal(str[Len(str)])

\* the name has a match of \d{4}-\d{2}-\d{2}_ that starts at position i
SDS_REGEX_MatchAt(name, i) ==
    /\ i >= 1 /\ i + 10 <= Len(name)
    /\ \A k \in {0, 1, 2, 3, 5, 6, 8, 9} : IsDigit(name[i + k])
    /\ name[i + 4] = "-" /\ name[i + 7] = "-"
    /\ name[i + 10] = "_"

\* SDS_REGEX.match: a match is tried at the start of the name only
SDS_REGEX_match(name) ==
    IF SDS_REGEX_MatchAt(name, 1) THEN 1 ELSE 0

\* the scan of SDS_REGEX.search from position i on: the first position at
\* which the pattern matches, 0 when the end is reached without a match
RECURSIVE ScanFrom(_, _)
ScanFrom(name, i) ==
    IF i + 10 > Len(name) THEN 0
    ELSE IF SDS_REGEX_MatchAt(name, i) THEN i
    ELSE ScanFrom(name, i + 1)

\* SDS_REGEX.search(name): start of the match (0: no match, Python's None)
SDS_REGEX_search(name) == ScanFrom(name, 1)

\* m.group('Y'), m.group('M'), m.group('D') of the match starting at i
Group(name, i, g) ==
    IF g = "Y" THEN SubSeq(name, i, i + 3)
    ELSE IF g = "M" THEN SubSeq(name, i + 5, i + 6)
    ELSE SubSeq(name, i + 8, i + 9)

IsLeap(y) == (y % 4 = 0) /\ ((y % 100 # 0) \/ (y % 400 = 0))
DaysInMonth(y, m) ==
    IF m = 2 THEN (IF IsLeap(y) THEN 29 ELSE 28)
    ELSE IF m \in {4, 6, 9, 11} THEN 30 ELSE 31

Date(y, m, d) == [y |-> y, m |-> m, d |-> d]
\* Python's None for Optional[datetime], and for "no exception"
NoDate == Date(0, 0, 0)
NoExc == [text |-> None, name |-> <<>>]
\* a ValueError of the datetime constructor
DateError(text) == [text |-> text, name |-> <<>>]

\* datetime(y, m, d): the value, or the ValueError the constructor raises
datetime(y, m, d) ==
    IF y < 1 \/ y > 9999
    THEN [dt |-> NoDate, exc |-> DateError("year is out of range")]
    ELSE IF m < 1 \/ m > 12
    THEN [dt |-> NoDate, exc |-> DateError("month must be in 1..12")]
    ELSE IF d < 1 \/ d > DaysInMonth(y, m)
    THEN [dt |-> NoDate, exc |-> DateError("day is out of range for month")]
    ELSE [dt |-> Date(y, m, d), exc |-> NoExc]

\* date_from_filename without its try/except: datetime's ValueError
\* propagates to the caller
date_from_filename_no_catch(name) ==
    LET i == SDS_REGEX_search(name)
    IN  IF i # 0
        THEN datetime(int(Group(name, i, "Y")), int(Group(name, i, "M")),
                      int(Group(name, i, "D")))
        ELSE [dt |-> NoDate, exc |-> NoExc]

\* date_from_filename: the date of the match, None when there is no match
\* and None when datetime raises; no exception leaves the function
date_from_filename(name) ==
    LET i == SDS_REGEX_search(name)
    IN  IF i # 0
        THEN LET r == datetime(int(Group(name, i, "Y")), int(Group(name, i, "M")),
                               int(Group(name, i, "D")))
             IN  [dt |-> r.dt, exc |-> NoExc]
        ELSE [dt |-> NoDate, exc |-> NoExc]

\* the text of choose_date's ValueError: a fixed text and the file name
NoValidDate(name) == [text |-> "No valid date in filename: ", name |-> name]

\* choose_date(p, source): the date, or the exception that leaves it;
\* mtime is the file's modification date
choose_date(name, source, mtime) ==
    IF source = "filename"
    THEN LET r == date_from_filename(name)
         IN  IF r.exc # NoExc THEN [dt |-> NoDate, exc |-> r.exc]
             ELSE IF r.dt # NoDate THEN [dt |-> r.dt, exc |-> NoExc]
             ELSE [dt |-> NoDate, exc |-> NoValidDate(name)]
    ELSE [dt |-> mtime, exc |-> NoExc]

\* what process_one makes of choose_date: the bucket date of a success, or
\* the err of the error Outcome, str(e)
Resolved(name, source, mtime) ==
    LET r == choose_date(name, source, mtime)
    IN  [source |-> source, dt |-> r.dt, err |-> r.exc]
Unresolved == [source |-> None, dt |-> NoDate, err |-> NoExc]

\* ---- the catalogue of file names
\* calendar dates and digit triples that are not dates
TokenDates ==
    { Date(2025, 9, 13), Date(2024, 2, 29), Date(2000, 2, 29), Date(1, 1, 1),
      Date(9999, 12, 31),
      Date(2025, 13, 1), Date(2025, 0, 10), Date(2025, 4, 31), Date(2023, 2, 29),
      Date(1900, 2, 29), Date(0, 1, 1), Date(2025, 9, 0) }
\* a date-shaped token, and three near misses of the shape
Shapes == {"token", "no_underscore", "short_month", "short_year"}
Part(shape, dt) == [shape |-> shape, dt |-> dt]
Absent == Part("absent", NoDate)
FirstParts ==
    {Part("token", dt) : dt \in TokenDates}
      \cup {Part(sh, Date(2025, 9, 13)) : sh \in Shapes} \cup {Absent}
SecondParts ==
    {Part("token", dt) : dt \in {Date(2025, 9, 13), Date(2024, 2, 29), Date(2025, 13, 1)}}
      \cup {Absent}
Prefixes == {<<>>, <<"a">>, <<"1">>, <<"1", "2", "-">>}
Middles == {<<>>, <<"x">>}
Suffixes == {<<>>, <<"0", "3", "-", "3", "5", ".", "w">>}

\* the characters a part contributes to the name
PartChars(pt) ==
    LET y4 == Fmt(pt.dt.y, 4)
        m2 == Fmt(pt.dt.m, 2)
        d2 == Fmt(pt.dt.d, 2)
    IN  IF pt.shape = "token" THEN y4 \o <<"-">> \o m2 \o <<"-">> \o d2 \o <<"_">>
        ELSE IF pt.shape = "no_underscore" THEN y4 \o <<"-">> \o m2 \o <<"-">> \o d2
        ELSE IF pt.shape = "short_month"
        THEN y4 \o <<"-">> \o SubSeq(m2, 2, 2) \o <<"-">> \o d2 \o <<"_">>
        ELSE IF pt.shape = "short_year"
        THEN SubSeq(y4, 2, 4) \o <<"-">> \o m2 \o <<"-">> \o d2 \o <<"_">>
        ELSE <<>>

\* p.name of a file of the catalogue
NameOf(n) == n.pre \o PartChars(n.t1) \o n.mid \o PartChars(n.t2) \o n.suf

Names == [pre : Prefixes, t1 : FirstParts, mid : Middles, t2 : SecondParts, suf : Suffixes]
\* the second file of a run: no token, a token that is not a date, a date
RefNames ==
    { [pre |-> <<"a">>, t1 |-> Absent, mid |-> <<>>, t2 |-> Absent, suf |-> <<".", "w">>],
      [pre |-> <<>>, t1 |-> Part("token", Date(2025, 13, 1)), mid |-> <<>>, t2 |-> Absent,
       suf |-> <<".", "w">>],
      [pre |-> <<>>, t1 |-> Part("token", Date(2025, 9, 13)), mid |-> <<>>, t2 |-> Absent,
       suf |-> <<".", "w">>] }
\* modification dates of the files
MtimeDates == {Date(2026, 1, 2)}

\* main is not running
MainIdle ==
    /\ cfg = [workers |-> 1, skip_errors |-> TRUE, dry_run |-> FALSE, move |-> FALSE,
              readonly |-> FALSE, logfile |-> FALSE, src_ok |-> TRUE]
    /\ nfiles = 0 /\ next = 0 /\ pc = "idle"
    /\ batch = <<>> /\ futs = <<>> /\ cur = 0 /\ curRes = NoRes
    /\ errors = 0 /\ exitcode = NoExit
    /\ fs = InitFs(0, TRUE) /\ fs0 = fs
    /\ exitAt = "running"
    /\ procCount = [f \in Files |-> 0]
    /\ handledCount = [f \in Files |-> 0]
    /\ failed = {} /\ tallied = {}
    /\ window = 1
    /\ pullWin = [f \in Files |-> 0]
    /\ subWin = [f \in Files |-> 0]
    /\ abortPending = [queued |-> {}, running |-> {}]
    /\ roLog = [tried |-> {}, failed |-> {}]

DateInit ==
    /\ MainIdle
    /\ dnames \in {<<n1, n2>> : n1 \in Names, n2 \in RefNames}
    /\ dpc = "input"
    /\ dres = <<Unresolved, Unresolved>>

\* process_one's choose_date(p, "filename") for file k, and the except clause
ResolveByFilename(k) ==
    /\ dpc = "input" /\ dres[k] = Unresolved
    /\ dres' = [dres EXCEPT ![k] = Resolved(NameOf(dnames[k]), "filename", NoDate)]
    /\ dpc' = IF \A j \in {1, 2} \ {k} : dres[j] # Unresolved THEN "resolved" ELSE "input"
    /\ UNCHANGED <<dnames, progVars, histVars, fs0>>

\* process_one's choose_date(p, "mtime") for file k
ResolveByMtime(k) ==
    /\ dpc = "input" /\ dres[k] = Unresolved
    /\ \E mt \in MtimeDates :
         dres' = [dres EXCEPT ![k] = Resolved(NameOf(dnames[k]), "mtime", mt)]
    /\ dpc' = IF \A j \in {1, 2} \ {k} : dres[j] # Unresolved THEN "resolved" ELSE "input"
    /\ UNCHANGED <<dnames, progVars, histVars, fs0>>

DateNext ==
    \/ \E k \in {1, 2} : ResolveByFilename(k)
    \/ \E k \in {1, 2} : ResolveByMtime(k)

DateSpec == DateInit /\ [][DateNext]_vars

\* ======================================================== properties
Yielded == 1 .. next
Exited == pc = "exited"
\* main returned from its last statements (no SystemExit, source valid)
Completed == Exited /\ exitAt = "return"
\* handle_result raised SystemExit(1)
Aborted == Exited /\ exitAt = "SystemExit"
\* an error Outcome has been handled with skip-errors off
AbortDecided == ~cfg.skip_errors /\ errors > 0
Multi == cfg.workers > 1
\* files pulled from the enumerator whose Outcome has not been handled
InFlight == {f \in Yielded : handledCount[f] = 0}

\* C1 (as claimed): for any RunConfig, when the process has exited every
\* file the enumerator yielded was passed to process_one exactly once and
\* its Outcome was handled exactly once.
C1_EveryYieldedHandledOnce ==
    /\ \A f \in Files : procCount[f] <= 1 /\ handledCount[f] <= 1
    /\ Exited => \A f \in Yielded : procCount[f] = 1 /\ handledCount[f] = 1

\* C1 (amended): no file is processed or handled twice, an Outcome is
\* handled only after process_one produced it, every yielded file has been
\* passed to process_one exactly once when the process exits, and when main
\* runs to completion (no abort) every enumerated file was yielded and its
\* Outcome handled exactly once.
C1_HandledOnceUnlessAborted ==
    /\ \A f \in Files : /\ procCount[f] <= 1
                        /\ handledCount[f] <= procCount[f]
                        /\ (f \notin Yielded => procCount[f] = 0)
    /\ Exited => \A f \in Yielded : procCount[f] = 1
    /\ Completed => /\ next = nfiles
                    /\ \A f \in 1 .. nfiles : handledCount[f] = 1

\* C1 witness: a multi-worker run over MaxFiles files (several windows)
\* completed with a tallied error, every Outcome handled.
C1_Witness ==
    /\ Completed /\ Multi /\ nfiles = MaxFiles /\ errors > 0
    /\ \A f \in 1 .. nfiles : handledCount[f] = 1

\* C2 (as claimed): once SystemExit is raised in multi-worker mode the
\* process can exit at once, whatever the sibling tasks of the window are
\* doing: the exit step is enabled in every aborting state.
C2_ExitWithoutWaiting ==
    (pc = "aborting" /\ Multi) => ENABLED AbortExit

\* C2 (amended): the process exits with the abort status only after every
\* task submitted in the current window has run to completion (the with
\* block's shutdown waits for them); their Outcomes are never handled.
C2_ExitAfterSiblingsDone ==
    (Aborted /\ Multi) =>
        /\ exitcode = ExitAbort
        /\ \A i \in 1 .. Len(futs) : futs[i].st = "done"
        /\ \A i \in abortPending.queued \cup abortPending.running :
               futs[i].st = "done" /\ ~futs[i].yielded
               /\ handledCount[futs[i].f] = 0

\* C2 witness: an aborted multi-worker run in which a sibling task was still
\* queued or running when SystemExit was raised.
C2_Witness ==
    /\ Aborted /\ Multi
    /\ abortPending.queued \cup abortPending.running # {}

\* C3: in multi-worker mode the number of files pulled from the enumerator
\* whose Outcome has not been handled never exceeds BATCH.
C3_WindowBound ==
    Multi => Cardinality(InFlight) <= BATCH /\ Len(batch) <= BATCH
             /\ Len(futs) <= BATCH

\* C3 witness: a second full window is in flight, none of it handled.
C3_Witness ==
    /\ Multi /\ window = 2 /\ pc = "drain"
    /\ Cardinality(InFlight) = BATCH

\* C4: in multi-worker mode no file is pulled into, and no task submitted
\* for, a later window until every Outcome of the earlier windows has been
\* handled.
C4_WindowOrder ==
    Multi =>
      \A f \in Files, g \in Files :
        /\ (pullWin[g] > 0 /\ pullWin[f] > pullWin[g]) => handledCount[g] = 1
        /\ (subWin[g] > 0 /\ subWin[f] > subWin[g]) => handledCount[g] = 1

\* C4 witness: in the second window the Outcome of a later-submitted task
\* has been handled before that of an earlier-submitted one.
C4_Witness ==
    /\ Multi /\ window = 2 /\ Len(futs) >= 2
    /\ subWin[futs[1].f] = 2
    /\ futs[2].yielded /\ ~futs[1].yielded

\* C5: once an error Outcome has been handled with skip-errors off, no file
\* is pulled and no task is submitted any more, a running task stays running
\* or completes, a completed one keeps its result, and the process exits
\* only with no task left running.
C5_AbortStopsNewWork ==
    [][AbortDecided =>
         /\ next' = next
         /\ batch' = batch
         /\ Len(futs') = Len(futs)
         /\ \A i \in 1 .. Len(futs) :
              /\ futs'[i].f = futs[i].f
              /\ futs[i].st = "running" => futs'[i].st \in {"running", "done"}
              /\ futs[i].st = "done" => futs'[i].st = "done" /\ futs'[i].res = futs[i].res
         /\ (pc' = "exited" => Running(futs') = {})]_vars

\* C5 witness: the run has aborted with files still unpulled, and a task
\* that was running when the abort was decided has completed.
C5_Witness ==
    /\ Aborted /\ next < nfiles
    /\ \E i \in abortPending.running : futs[i].st = "done"

\* The four terminal situations
FullSuccess == Completed /\ errors = 0
PartialSuccess == Completed /\ errors > 0
PreconditionFailure == Exited /\ exitAt = "return2"

\* C6 (as claimed): the exit status tells the four terminal situations
\* apart: each situation has a status of its own.
C6_FourDistinctStatuses ==
    Exited =>
      /\ FullSuccess <=> exitcode = ExitOK
      /\ PartialSuccess <=> exitcode = ExitErrors
      /\ Aborted <=> exitcode = ExitAbort
      /\ PreconditionFailure <=> exitcode = ExitNoSource

\* C6 (amended): the exit status tells three cases apart: 0 for completion
\* with an error tally of zero, 2 for a precondition failure, and 1 both
\* for completion with a nonzero tally and for the abort.
C6_ThreeDistinctStatuses ==
    /\ Exited =>
        /\ FullSuccess <=> exitcode = 0
        /\ (PartialSuccess \/ Aborted) <=> exitcode = 1
        /\ PreconditionFailure <=> exitcode = 2
    /\ ~Exited => exitcode = NoExit

\* C6 witness: a run completed under skip-errors with tallied errors: its
\* status is the abort's.
C6_Witness == PartialSuccess /\ cfg.skip_errors /\ exitcode = ExitAbort

\* C7 (as claimed): on normal completion main returns 0 iff no enumerated
\* file's relocation failed and 1 iff at least one failed; no files, 0.
C7_ExitCodeIffFailure ==
    Completed =>
      /\ exitcode = 0 <=> failed = {}
      /\ exitcode = 1 <=> failed # {}
      /\ nfiles = 0 => exitcode = 0

\* C8 (as claimed): handle_result takes its error branch for an Outcome iff
\* process_one caught a failure while producing it, and every Outcome has
\* exactly one of dest and err present.
C8_ErrorIffCaught ==
    /\ \A f \in Files : handledCount[f] > 0 => (f \in tallied <=> f \in failed)
    /\ \A i \in 1 .. Len(futs) :
         futs[i].st = "done" => (futs[i].res.dest = NoDest <=> futs[i].res.err # None)

\* C9 (as claimed): a dry run leaves the filesystem as it found it.
C9_DryRunTouchesNothing ==
    cfg.dry_run => fs = fs0

\* C10: no failure escapes process_one: no future holds an exception, the
\* coordinator never crashes, and the Outcome of a file whose processing
\* failed is (source path, no destination, description).
C10_NoFailureEscapes ==
    /\ pc # "crashed"
    /\ \A i \in 1 .. Len(futs) :
         /\ ~futs[i].exc
         /\ (futs[i].st = "done" /\ futs[i].f \in failed) =>
               /\ futs[i].res.src = futs[i].f
               /\ futs[i].res.dest = NoDest
               /\ futs[i].res.err # None
    /\ (pc = "single_handle" /\ cur \in failed) =>
          curRes.src = cur /\ curRes.dest = NoDest /\ curRes.err # None

\* C10 witness: in one window a task whose date did not resolve returned an
\* error Outcome and a sibling task completed with a destination.
C10_Witness ==
    \E i \in 1 .. Len(futs), j \in 1 .. Len(futs) :
        /\ futs[i].st = "done" /\ futs[i].f \in failed
        /\ futs[i].res.dest = NoDest /\ futs[i].res.err = "msg"
        /\ futs[j].st = "done" /\ futs[j].res.dest # NoDest

\* C11 (as claimed): with skip-errors on a per-file error never stops the
\* run: it never aborts, each failed file adds one to the Error Tally, every
\* enumerated file is processed and its Outcome handled, and a run in which
\* some file failed completes with exit code 1.
C11_SkipErrorsNeverStops ==
    cfg.skip_errors =>
      /\ pc # "aborting" /\ ~Aborted
      /\ Completed =>
           /\ \A f \in 1 .. nfiles : procCount[f] = 1 /\ handledCount[f] = 1
           /\ errors = Cardinality(failed)
           /\ (failed # {} => exitcode = 1)

\* C12 (as claimed): after a completed run that is not a dry run, every file
\* with a success Outcome has its own content at the destination path of
\* that Outcome; in copy mode it is still at the source, in move mode not.
C12_OwnContentAtDest ==
    (Completed /\ ~cfg.dry_run) =>
      \A f \in 1 .. nfiles :
        f \notin failed =>
          /\ fs.dest[BucketOf(f)] = f
          /\ (cfg.move <=> f \notin fs.src)

\* C13: a failure of ensure_readonly never makes the file's Outcome an
\* error and never adds to the Error Tally; ensure_readonly is called only
\* with --readonly, after a successful copy or move, never in a dry run and
\* never for a file whose relocation failed.
C13_ReadonlyBestEffort ==
    /\ \A f \in roLog.failed : f \notin failed /\ f \notin tallied
    /\ \A i \in 1 .. Len(futs) :
         (futs[i].st = "done" /\ futs[i].f \in roLog.failed) =>
            futs[i].res.err = None /\ futs[i].res.dest = BucketOf(futs[i].f)
    /\ (pc = "single_handle" /\ cur \in roLog.failed) =>
          curRes.err = None /\ curRes.dest = BucketOf(cur)
    /\ errors <= Cardinality(failed)
    /\ \A f \in roLog.tried :
         /\ cfg.readonly /\ ~cfg.dry_run
         /\ f \notin failed
         /\ fs.dest[BucketOf(f)] # 0
         /\ BucketOf(f) \in fs.dirs
    /\ \A f \in Files : (procCount[f] = 1 /\ f \in failed) => f \notin roLog.tried

\* C13 witness: a run in which chmod failed for a file completed with an
\* Error Tally of zero and exit code 0.
C13_Witness ==
    /\ Completed /\ roLog.failed # {}
    /\ errors = 0 /\ exitcode = 0 /\ failed = {}

C15_TallyEqualsErrorOutcomes ==
    /\ errors = Cardinality(tallied)
    /\ \A f \in Files : handledCount[f] <= 1
    /\ (Completed /\ cfg.skip_errors /\ Multi) =>
         errors = Cardinality({f \in 1 .. nfiles : f \in failed})

\* ---- date resolution: what the properties speak of
\* the date-shaped token of the name that starts at position i is the first
FirstMatch(name, i) ==
    SDS_REGEX_MatchAt(name, i) /\ \A j \in 1 .. (i - 1) : ~SDS_REGEX_MatchAt(name, j)
\* the digits of the token at position i, read as numbers
DateAt(name, i) ==
    Date(int(Group(name, i, "Y")), int(Group(name, i, "M")), int(Group(name, i, "D")))
\* they are a calendar date
ValidAt(name, i) ==
    LET t == DateAt(name, i) IN datetime(t.y, t.m, t.d).exc = NoExc
NoTokenName(name) == \A i \in 1 .. Len(name) : ~SDS_REGEX_MatchAt(name, i)
InvalidTokenName(name) ==
    \E i \in 1 .. Len(name) : FirstMatch(name, i) /\ ~ValidAt(name, i)
ByFilename(k) == dres[k].source = "filename"

\* C16 (as claimed): in filename mode, for every YYYY-MM-DD_ token of the
\* name that is a valid calendar date, choose_date returns exactly that
\* date, whatever precedes or follows the token.
C16_AnyValidTokenResolved ==
    \A k \in {1, 2} :
      (dpc # "idle" /\ ByFilename(k)) =>
        LET name == NameOf(dnames[k])
        IN  \A i \in 1 .. Len(name) :
              (SDS_REGEX_MatchAt(name, i) /\ ValidAt(name, i)) =>
                dres[k].err = NoExc /\ dres[k].dt = DateAt(name, i)

\* C16 (amended): in filename mode choose_date resolves the first
\* YYYY-MM-DD_ token of the name: if it is a valid calendar date that date is
\* returned, whatever precedes or follows the token; if it is not, resolution
\* fails even when a later token is a valid date; a name written with a
\* valid date as its first token resolves to the date it was written with.
C16_FirstTokenResolved ==
    \A k \in {1, 2} :
      (dpc # "idle" /\ ByFilename(k)) =>
        LET name == NameOf(dnames[k])
            t1 == dnames[k].t1
        IN  /\ \A i \in 1 .. Len(name) :
                 FirstMatch(name, i) =>
                   IF ValidAt(name, i)
                   THEN dres[k].err = NoExc /\ dres[k].dt = DateAt(name, i)
                   ELSE dres[k].err # NoExc /\ dres[k].dt = NoDate
            /\ NoTokenName(name) => dres[k].err # NoExc /\ dres[k].dt = NoDate
            /\ (t1.shape = "token" /\ datetime(t1.dt.y, t1.dt.m, t1.dt.d).exc = NoExc) =>
                 dres[k].err = NoExc /\ dres[k].dt = t1.dt

\* C16 witness: a name with characters before and after its first token, a
\* valid date, and a different valid token later, resolved to the first.
C16_Witness ==
    /\ dpc = "resolved" /\ ByFilename(1)
    /\ dnames[1].pre = <<"1", "2", "-">> /\ dnames[1].suf # <<>>
    /\ dnames[1].t1 = Part("token", Date(2024, 2, 29))
    /\ dnames[1].t2 = Part("token", Date(2025, 9, 13))
    /\ dres[1].dt = Date(2024, 2, 29) /\ dres[1].err = NoExc

\* C17 (as claimed): filename-mode resolution fails with two distinguishable
\* reasons: the err of a file whose token is not a calendar date differs
\* from the err reason of a file whose name has no token.
C17_TwoFailureReasons ==
    \A k \in {1, 2} : \A l \in {1, 2} :
      (dpc # "idle" /\ ByFilename(k) /\ ByFilename(l)
         /\ InvalidTokenName(NameOf(dnames[k])) /\ NoTokenName(NameOf(dnames[l]))) =>
        /\ dres[k].err # NoExc /\ dres[l].err # NoExc
        /\ dres[k].err.text # dres[l].err.text

\* C17 (amended): filename-mode resolution fails exactly when the name has
\* no token or its first token is not a calendar date, and in both cases the
\* error Outcome carries the one reason "No valid date in filename: <name>".
C17_OneFailureReason ==
    \A k \in {1, 2} :
      (dpc # "idle" /\ ByFilename(k)) =>
        LET name == NameOf(dnames[k])
        IN  IF InvalidTokenName(name) \/ NoTokenName(name)
            THEN dres[k].dt = NoDate /\ dres[k].err = NoValidDate(name)
            ELSE dres[k].dt # NoDate /\ dres[k].err = NoExc

\* C17 witness: a file whose token has month 13 and a file without a token,
\* both resolved by file name, both with the same reason text.
C17_Witness ==
    /\ dpc = "resolved" /\ ByFilename(1) /\ ByFilename(2)
    /\ dnames[1].t1 = Part("token", Date(2025, 13, 1))
    /\ InvalidTokenName(NameOf(dnames[1])) /\ NoTokenName(NameOf(dnames[2]))
    /\ dres[1].err.text = dres[2].err.text
    /\ dres[1].err.text = "No valid date in filename: "

\* C18: with workers <= 1 processing is strictly sequential: every file
\* pulled before the current one has been processed and handled, no file
\* after the current one has been pulled, processed or modified, no future
\* exists, and once the run aborts on the error of file k (skip-errors off)
\* k is the last file pulled.
C18_SingleWorkerSequential ==
    ~Multi =>
      /\ futs = <<>> /\ batch = <<>>
      /\ \A f \in Files : f < next => procCount[f] = 1 /\ handledCount[f] = 1
      /\ \A f \in Files :
           f > next => /\ procCount[f] = 0 /\ handledCount[f] = 0 /\ pullWin[f] = 0
                       /\ (f <= nfiles => f \in fs.src)
      /\ \A b \in Buckets : fs.dest[b] <= next
      /\ pc \in {"single_proc", "single_handle"} =>
           cur = next /\ handledCount[cur] = 0
      /\ AbortDecided => /\ tallied = {next} /\ errors = 1
                         /\ pc \in {"aborting", "exited"}

\* C18 witness: a single-worker run aborted on its second or later file
\* with files left in the enumerator, all of them untouched.
C18_Witness ==
    /\ Aborted /\ ~Multi /\ next >= 2 /\ next < nfiles
    /\ tallied = {next}
    /\ \A f \in (next + 1) .. nfiles : procCount[f] = 0 /\ f \in fs.src

\* C19: under fair scheduling a run with a valid source eventually reaches
\* a terminal state, Done (main returned 0 or 1) or Aborted, a run with an
\* invalid source ends with status 2, and Done is reached only with the
\* enumerator exhausted, every file processed, and the Outcome of every
\* submitted task, those of the last window included, handled.
C19_Terminates ==
    /\ (cfg.src_ok => <>((Completed /\ exitcode \in {0, 1}) \/ Aborted))
    /\ (~cfg.src_ok => <>PreconditionFailure)
    /\ [](Completed =>
            /\ next = nfiles
            /\ \A f \in 1 .. nfiles : procCount[f] = 1 /\ handledCount[f] = 1
            /\ \A i \in 1 .. Len(futs) : futs[i].st = "done" /\ futs[i].yielded)

\* C19 witness: a multi-worker run whose last window was partial (fewer
\* than BATCH files) reached Done with every Outcome handled.
C19_Witness ==
    /\ Completed /\ Multi /\ nfiles > BATCH /\ nfiles % BATCH # 0
    /\ Len(futs) = nfiles % BATCH
    /\ \A f \in 1 .. nfiles : handledCount[f] = 1

====
